---- MODULE Spec2Model ----
(***************************************************************************)
(* CrossDome scoring-and-ranking engine (crossdome/core_functions.py and   *)
(* crossdome/core_classes.py).                                             *)
(*                                                                         *)
(* Representation.                                                         *)
(*  - A Python str is a sequence of one-character strings; list(str) is    *)
(*    ListOf.                                                              *)
(*  - A relatedness score is a non-negative real of the shape              *)
(*    sqrt(a) * b / sqrt(c).  It is held exactly, as the fraction          *)
(*    [num |-> a * b * b, den |-> c] of its SQUARE.  Every factor of a     *)
(*    score is non-negative (np.sqrt, a sum of np.sqrt), so a score is     *)
(*    determined by its square.                                            *)
(*  - Position weights are drawn from perfect squares, so that             *)
(*    np.sqrt(position_weight) is an integer vector.                       *)
(*  - An optional value (None, or "nothing returned") is a sequence of     *)
(*    length 0; a present value v is <<v>>.                                *)
(***************************************************************************)
EXTENDS Integers, Sequences, FiniteSets, TLC

\* query, subject, weight, peptides: the caller's inputs
\* background, result: the xrBackground and the xrResult the caller holds
\* shared: the DataFrame the caller gave xrResult and still references, while
\*   the held xrResult is bound to it
\* op, args, raised, ret: the last call, the arguments of a select, filter or
\*   mutate call, the exception it raised and what it returned
VARIABLES query, subject, weight, peptides, background, result, shared, op, args, raised, ret

vars == <<query, subject, weight, peptides, background, result, shared, op, args, raised, ret>>

-----------------------------------------------------------------------------
(* Program constants *)

\* "ACDEFGHIKLMNPQRSTVWY", in the order the code enumerates it
StandardAminoAcids ==
  <<"A", "C", "D", "E", "F", "G", "H", "I", "K", "L",
    "M", "N", "P", "Q", "R", "S", "T", "V", "W", "Y">>

StandardSet == {StandardAminoAcids[i] : i \in 1..Len(StandardAminoAcids)}

PeptideLength == 9

NoError == "NoError"

-----------------------------------------------------------------------------
(* Bounds of the explored inputs *)

\* positions 1..MaxSubstPos of a base peptide receive a substituted residue
MaxSubstPos == 1
\* position weights are the squares of 0..MaxWeightRoot
MaxWeightRoot == 2
\* a background list holds up to MaxBackground peptides
MaxBackground == 3
\* wall-clock readings a Result's timestamp is drawn from
MaxTimestamp == 1

-----------------------------------------------------------------------------
(* Input pools *)

EVDPIGHLY == <<"E", "V", "D", "P", "I", "G", "H", "L", "Y">>
ESDPIVAQY == <<"E", "S", "D", "P", "I", "V", "A", "Q", "Y">>
EVDPIGHFY == <<"E", "V", "D", "P", "I", "G", "H", "F", "Y">>
EVDPIGLLY == <<"E", "V", "D", "P", "I", "G", "L", "L", "Y">>
PolyA == [i \in 1..PeptideLength |-> "A"]
PolyY == [i \in 1..PeptideLength |-> "Y"]

SubstPositions == {i \in 1..PeptideLength : i <= MaxSubstPos}

Variants(base, chars) == {[base EXCEPT ![i] = c] : i \in SubstPositions, c \in chars}

ValidPool ==
  {EVDPIGHLY, ESDPIVAQY, EVDPIGHFY, PolyA, PolyY}
    \cup Variants(PolyA, {"Y", "C"}) \cup Variants(EVDPIGHLY, {"A", "Y"})

InvalidPool ==
  Variants(EVDPIGHLY, {"B", "1"})
    \cup {SubSeq(EVDPIGHLY, 1, 8), EVDPIGHLY \o <<"A">>, PolyA \o <<"X">>, <<>>}

PeptidePool == ValidPool \cup InvalidPool

\* the second peptide of a pair
SubjectPool ==
  {EVDPIGHLY, ESDPIVAQY, PolyA, PolyY, [EVDPIGHLY EXCEPT ![1] = "A"],
   [EVDPIGHLY EXCEPT ![1] = "B"], SubSeq(EVDPIGHLY, 1, 8)}

Ones == [i \in 1..PeptideLength |-> 1]

\* a weight vector, or <<>> for position_weight=None
WeightPool ==
  {<<>>}
    \cup {[i \in 1..PeptideLength |-> r * r] : r \in 0..MaxWeightRoot}
    \cup {[Ones EXCEPT ![i] = 0] : i \in {1, PeptideLength}}

QueryPool == {EVDPIGHLY, [EVDPIGHLY EXCEPT ![3] = "B"], SubSeq(EVDPIGHLY, 1, 8)}

BackgroundPool ==
  {ESDPIVAQY, EVDPIGHFY, [ESDPIVAQY EXCEPT ![9] = "X"], EVDPIGHFY \o <<"Y">>}

\* the background list of the repository's tests
TestBackground == <<ESDPIVAQY, EVDPIGHFY, EVDPIGLLY>>

RECURSIVE ListsUpTo(_, _)
ListsUpTo(pool, n) ==
  IF n = 0 THEN {<<>>}
  ELSE LET shorter == ListsUpTo(pool, n - 1)
       IN  shorter \cup {Append(l, p) : l \in {s \in shorter : Len(s) = n - 1}, p \in pool}

BackgroundLists == ListsUpTo(BackgroundPool, MaxBackground) \cup {TestBackground}

BatchWeightPool == {<<>>, [Ones EXCEPT ![2] = 4]}

Timestamps == 1..MaxTimestamp

\* column lists given to select
SelectPool == {<<"subject", "relatedness_score", "rank">>, <<"subject", "score">>}

\* condition strings given to filter: "num_positive >= 8"
FilterPool == {[column |-> "num_positive", comparison |-> ">=", value |-> 8]}

\* keyword arguments given to mutate, in the order written: mutate(flag=1) and
\* mutate(rank=0, flag=1)
MutatePool ==
  {<<[key |-> "flag", value |-> 1]>>,
   <<[key |-> "rank", value |-> 0], [key |-> "flag", value |-> 1]>>}

-----------------------------------------------------------------------------
(* Helpers: sums, square roots *)

RECURSIVE SeqSum(_)
SeqSum(s) == IF s = <<>> THEN 0 ELSE s[1] + SeqSum(Tail(s))

\* np.sqrt on a perfect square
Sqrt(n) == CHOOSE r \in 0..n : r * r = n

-----------------------------------------------------------------------------
(* _internal_checking_peptide *)

ListOf(peptide) == [i \in 1..Len(peptide) |-> peptide[i]]

\* a mutant: the residues are not checked against the alphabet
InternalCheckingPeptideLengthOnly(peptide) ==
  IF Len(peptide) # PeptideLength
    THEN [raised |-> "ValueError", value |-> <<>>]
  ELSE [raised |-> NoError, value |-> <<ListOf(peptide)>>]

InternalCheckingPeptide(peptide) ==
  IF Len(peptide) # PeptideLength
    THEN [raised |-> "ValueError", value |-> <<>>]
  ELSE IF ~ (\A i \in 1..Len(peptide) : peptide[i] \in StandardSet)
    THEN [raised |-> "ValueError", value |-> <<>>]
  ELSE [raised |-> NoError, value |-> <<ListOf(peptide)>>]

(* _amino_acid_to_numeric *)

AaToNum(residue) == (CHOOSE i \in 1..Len(StandardAminoAcids) : StandardAminoAcids[i] = residue) - 1

AminoAcidToNumeric(peptide) == [i \in 1..Len(peptide) |-> AaToNum(peptide[i])]

(* _internal_related_distance *)

\* a mutant: the codes are added, not subtracted
ProductComponentsOfSum(query_numeric, subject_numeric) ==
  [i \in 1..Len(query_numeric) |-> (query_numeric[i] + subject_numeric[i]) * (query_numeric[i] + subject_numeric[i])]

\* a mutant: the difference is not squared
ProductComponentsUnsquared(query_numeric, subject_numeric) ==
  [i \in 1..Len(query_numeric) |-> query_numeric[i] - subject_numeric[i]]

\* (query_numeric - subject_numeric) ** 2
ProductComponents(query_numeric, subject_numeric) ==
  [i \in 1..Len(query_numeric) |-> (query_numeric[i] - subject_numeric[i]) * (query_numeric[i] - subject_numeric[i])]

\* np.sum(relatedness_score * np.sqrt(position_weight)) is relatedness_score
\* times this factor; with position_weight None the scalar is summed alone
WeightFactor(position_weight) ==
  IF position_weight = <<>> THEN 1
  ELSE SeqSum([i \in 1..Len(position_weight) |-> Sqrt(position_weight[i])])

\* max_possible_distance ** 2
MaxPossibleSquared(query_components) ==
  Len(query_components) * (Cardinality(StandardSet) - 1) * (Cardinality(StandardSet) - 1)

\* a mutant: the score grows with closeness, not with distance
InternalRelatedCloseness(query_components, subject_components, position_weight) ==
  LET query_numeric == AminoAcidToNumeric(query_components)
      subject_numeric == AminoAcidToNumeric(subject_components)
      product_components == ProductComponents(query_numeric, subject_numeric)
      sum_squares == SeqSum(product_components)
      factor == WeightFactor(position_weight)
  IN  [num |-> (MaxPossibleSquared(query_components) - sum_squares) * factor * factor,
       den |-> MaxPossibleSquared(query_components)]

InternalRelatedDistance(query_components, subject_components, position_weight) ==
  LET query_numeric == AminoAcidToNumeric(query_components)
      subject_numeric == AminoAcidToNumeric(subject_components)
      product_components == ProductComponents(query_numeric, subject_numeric)
      sum_squares == SeqSum(product_components)
      factor == WeightFactor(position_weight)
  IN  [num |-> sum_squares * factor * factor,
       den |-> MaxPossibleSquared(query_components)]

\* position_weight or [1.0] * 9
DefaultWeight(position_weight) ==
  IF position_weight = <<>> THEN Ones ELSE position_weight

(* calculate_relatedness *)

CalculateRelatednessOf(q, candidate, position_weight) ==
  LET query_peptide == InternalCheckingPeptide(q)
      candidate_peptide == InternalCheckingPeptide(candidate)
  IN  IF query_peptide.raised # NoError THEN [raised |-> query_peptide.raised, value |-> <<>>]
      ELSE IF candidate_peptide.raised # NoError THEN [raised |-> candidate_peptide.raised, value |-> <<>>]
      ELSE LET raw_score == InternalRelatedDistance(query_peptide.value[1], candidate_peptide.value[1],
                                                    DefaultWeight(position_weight))
           IN  [raised |-> NoError,
                \* raw_score / np.sqrt(len(query_peptide))
                value |-> <<[num |-> raw_score.num, den |-> raw_score.den * Len(query_peptide.value[1])]>>]

(* Comparisons of scores held as squares *)

ScoreIsZero(s) == s.num = 0
ScoreAtMostOne(s) == s.num <= s.den
ScoreEqual(s, t) ==
  IF s.den = t.den THEN s.num = t.num ELSE s.num * t.den = t.num * s.den
ScoreLess(s, t) ==
  IF s.den = t.den THEN s.num < t.num ELSE s.num * t.den < t.num * s.den

-----------------------------------------------------------------------------
(* xrBackground.__init__ *)

Alleles == {"HLA-A*01:01"}

\* a mutant: any() in place of all()
NewBackgroundAnyNineMer(allele, peptide_list) ==
  LET self == [allele |-> allele,
               peptides |-> peptide_list,
               stats |-> [off_target |-> 0, database |-> Len(peptide_list)]]
  IN  IF peptide_list # <<>> /\ ~ (\E k \in 1..Len(peptide_list) : Len(peptide_list[k]) = PeptideLength)
        THEN [raised |-> "ValueError", value |-> <<>>]
      ELSE [raised |-> NoError, value |-> <<self>>]

NewBackground(allele, peptide_list) ==
  LET self == [allele |-> allele,
               peptides |-> peptide_list,
               stats |-> [off_target |-> 0, database |-> Len(peptide_list)]]
  IN  IF ~ (\A k \in 1..Len(peptide_list) : Len(peptide_list[k]) = PeptideLength)
        THEN [raised |-> "ValueError", value |-> <<>>]
      ELSE [raised |-> NoError, value |-> <<self>>]

(* xrResult.__init__ *)

NewResult(q, result_dataframe, allele, position_weight, now) ==
  [query |-> q,
   result |-> result_dataframe,
   allele |-> allele,
   expression |-> <<>>,
   analysis |-> <<>>,
   position_weight |-> position_weight,
   timestamp |-> now]

-----------------------------------------------------------------------------
(* cross_compose *)

Min(a, b) == IF a <= b THEN a ELSE b

\* a mutant: the last position is left out of the count
NumPositiveButLast(q, element) ==
  Cardinality({i \in 1..(Min(Len(q), Len(element)) - 1) : q[i] = element[i]})

\* sum(q == c for q, c in zip(query, element)), on the strings themselves
NumPositive(q, element) ==
  Cardinality({i \in 1..Min(Len(q), Len(element)) : q[i] = element[i]})

NumNegative(num_positive) == PeptideLength - num_positive

\* a mutant: an invalid member is skipped and the loop goes on
RECURSIVE ScoreLoopSkippingInvalid(_, _, _, _, _)
ScoreLoopSkippingInvalid(q, query_peptide, elements, position_weight, results) ==
  IF elements = <<>> THEN [raised |-> NoError, value |-> results]
  ELSE LET element == Head(elements)
           background_peptide == InternalCheckingPeptide(element)
       IN  IF background_peptide.raised # NoError
             THEN ScoreLoopSkippingInvalid(q, query_peptide, Tail(elements), position_weight, results)
           ELSE LET score == InternalRelatedDistance(query_peptide, background_peptide.value[1], position_weight)
                    row == [query |-> q,
                            subject |-> element,
                            relatedness_score |-> score,
                            num_positive |-> Cardinality({i \in 1..Len(q) : q[i] = element[i]}),
                            num_negative |-> Cardinality({i \in 1..Len(q) : q[i] # element[i]})]
                IN  ScoreLoopSkippingInvalid(q, query_peptide, Tail(elements), position_weight, Append(results, row))

\* the loop over background.peptides: the rows appended so far, or the
\* exception that ends the call
RECURSIVE ScoreLoop(_, _, _, _, _)
ScoreLoop(q, query_peptide, elements, position_weight, results) ==
  IF elements = <<>> THEN [raised |-> NoError, value |-> results]
  ELSE LET element == Head(elements)
           background_peptide == InternalCheckingPeptide(element)
       IN  IF background_peptide.raised # NoError
             THEN [raised |-> background_peptide.raised, value |-> results]
           ELSE LET score == InternalRelatedDistance(query_peptide, background_peptide.value[1], position_weight)
                    num_positive == NumPositive(q, element)
                    num_negative == NumNegative(num_positive)
                    row == [query |-> q,
                            subject |-> element,
                            relatedness_score |-> score,
                            num_positive |-> num_positive,
                            num_negative |-> num_negative]
                IN  ScoreLoop(q, query_peptide, Tail(elements), position_weight, Append(results, row))

(* _internal_percentile_rank *)

\* a mutant: the rank is divided by len(scores)
InternalPercentileRankOverLen(scores) ==
  [raised |-> NoError,
   value |-> [k \in 1..Len(scores) |-> [num |-> (k - 1) * 100, den |-> Len(scores)]]]

\* (rank / (len(scores) - 1)) * 100 for rank in range(len(scores)), as fractions
InternalPercentileRank(scores) ==
  IF Len(scores) = 1 THEN [raised |-> "ZeroDivisionError", value |-> <<>>]
  ELSE [raised |-> NoError,
        value |-> [k \in 1..Len(scores) |-> [num |-> (k - 1) * 100, den |-> Len(scores) - 1]]]

(* The zscore column: (score - mean) / std in float64 *)

\* 2 ** k modulo n
RECURSIVE Pow2Mod(_, _)
Pow2Mod(k, n) == IF k = 0 THEN 1 % n ELSE (2 * Pow2Mod(k - 1, n)) % n

\* the integer square root of n, searched in lo..hi
RECURSIVE RootBetween(_, _, _)
RootBetween(n, lo, hi) ==
  IF lo >= hi THEN lo
  ELSE LET mid == (lo + hi + 1) \div 2
       IN  IF mid * mid <= n THEN RootBetween(n, mid, hi) ELSE RootBetween(n, lo, mid - 1)

\* 46340 * 46340 is the largest square below 2 ** 31
IntegerRoot(n) == RootBetween(n, 0, Min(n, 46340))

IsPerfectSquare(n) == IntegerRoot(n) * IntegerRoot(n) = n

\* the binary exponent e of a / b: 2 ** e <= a / b < 2 ** (e + 1)
RECURSIVE BinaryExponent(_, _)
BinaryExponent(a, b) ==
  IF a < b THEN BinaryExponent(2 * a, b) - 1
  ELSE IF a >= 2 * b THEN BinaryExponent(a, 2 * b) + 1
  ELSE 0

\* the float64 nearest to a / b has the 53-bit significand
\* round(a * 2 ** (52 - e) / b); this is that significand modulo 4
SignificandMod4(a, b) ==
  LET k == 52 - BinaryExponent(a, b)
  IN  (((2 * a * Pow2Mod(k, 8 * b)) + b) % (8 * b)) \div (2 * b)

\* whether score / 2 ** e, in [1, 2), is at least 4/3 (on the squares)
RECURSIVE SignificandAtLeastFourThirds(_, _)
SignificandAtLeastFourThirds(num, den) ==
  IF num < den THEN SignificandAtLeastFourThirds(4 * num, den)
  ELSE IF num >= 4 * den THEN SignificandAtLeastFourThirds(num, 4 * den)
  ELSE 9 * num >= 16 * den

\* Whether the float64 mean of n equal scores s, ((s + s) + ...) / n, is s
\* again.  2s and 4s are exact; 3s is rounded, and (3s rounded) / 3 misses s
\* exactly when the significand m of s has 3m >= 2 ** 54 and m = 2 mod 4.
\* m is known when the score is the rational sqrt(num) / sqrt(den); for any
\* other score, and for n > 4, the outcome is left open (unknown_exact).
MeanOfEqualIsExact(score, n, unknown_exact) ==
  IF ScoreIsZero(score) \/ n \in {1, 2, 4} THEN TRUE
  ELSE IF n = 3
    THEN IF ~ SignificandAtLeastFourThirds(score.num, score.den) THEN TRUE
         ELSE IF IsPerfectSquare(score.num) /\ IsPerfectSquare(score.den)
           THEN SignificandMod4(IntegerRoot(score.num), IntegerRoot(score.den)) # 2
         ELSE unknown_exact
  ELSE unknown_exact

\* a zscore is kept as not-a-number or a finite number
NaN == "nan"
Finite == "finite"

\* One score: std is not-a-number.  Equal scores: when the mean is exact,
\* std is 0.0 and (score - mean) / std is 0.0 / 0.0; when the mean is off by
\* rounding, std is a tiny positive number and every zscore is finite and
\* not zero.  Otherwise std is positive.
ZScores(scores, unknown_exact) ==
  IF Len(scores) < 2 THEN [k \in 1..Len(scores) |-> NaN]
  ELSE IF \A j, k \in 1..Len(scores) : ScoreEqual(scores[j], scores[k])
    THEN IF MeanOfEqualIsExact(scores[1], Len(scores), unknown_exact)
           THEN [k \in 1..Len(scores) |-> NaN]
           ELSE [k \in 1..Len(scores) |-> Finite]
  ELSE [k \in 1..Len(scores) |-> Finite]

\* norm.cdf
NormCdf(z) == IF z = NaN THEN NaN ELSE Finite

MeasurementColumns == <<"query", "subject", "relatedness_score", "num_positive", "num_negative">>
StatisticsColumns == <<"zscore", "pvalue", "percentile_rank", "rank">>

CrossComposeOf(q, bg, position_weight, now, unknown_exact) ==
  LET query_peptide == InternalCheckingPeptide(q)
      pw == DefaultWeight(position_weight)
  IN  IF query_peptide.raised # NoError THEN [raised |-> query_peptide.raised, value |-> <<>>]
      ELSE
      LET results == ScoreLoop(q, query_peptide.value[1], bg.peptides, pw, <<>>)
      IN  IF results.raised # NoError THEN [raised |-> results.raised, value |-> <<>>]
          \* pd.DataFrame([]) has no relatedness_score column
          ELSE IF results.value = <<>> THEN [raised |-> "KeyError", value |-> <<>>]
          ELSE
          LET n == Len(results.value)
              scores == [k \in 1..n |-> results.value[k].relatedness_score]
              zscore == ZScores(scores, unknown_exact)
              percentile_rank == InternalPercentileRank(scores)
          IN  IF percentile_rank.raised # NoError THEN [raised |-> percentile_rank.raised, value |-> <<>>]
              ELSE
              LET index == [k \in 1..n |-> k - 1]
                  result_dataframe ==
                    [columns |-> MeasurementColumns \o StatisticsColumns,
                     index |-> index,
                     rows |-> [k \in 1..n |->
                                [query |-> results.value[k].query,
                                 subject |-> results.value[k].subject,
                                 relatedness_score |-> results.value[k].relatedness_score,
                                 num_positive |-> results.value[k].num_positive,
                                 num_negative |-> results.value[k].num_negative,
                                 zscore |-> zscore[k],
                                 pvalue |-> NormCdf(zscore[k]),
                                 percentile_rank |-> percentile_rank.value[k],
                                 rank |-> index[k] + 1]]]
              IN  [raised |-> NoError,
                   value |-> <<NewResult(q, result_dataframe, bg.allele, pw, now)>>]

(* cross_pair_summary *)

CrossPairSummaryOf(q, bg, now, unknown_exact) == CrossComposeOf(q, bg, <<>>, now, unknown_exact)

-----------------------------------------------------------------------------
(* pandas.DataFrame operations the Result container uses *)

ColumnsOf(frame) == {frame.columns[i] : i \in 1..Len(frame.columns)}

\* frame[columns] with a list of labels: a new frame of these columns, or
\* KeyError when a label is not a column
GetColumns(frame, columns) ==
  IF \E i \in 1..Len(columns) : columns[i] \notin ColumnsOf(frame)
    THEN [raised |-> "KeyError", value |-> <<>>]
  ELSE [raised |-> NoError,
        value |-> <<[columns |-> columns,
                     index |-> frame.index,
                     rows |-> [k \in 1..Len(frame.rows) |->
                                [c \in {columns[i] : i \in 1..Len(columns)} |-> frame.rows[k][c]]]]>>]

\* a condition string "<column> <comparison> <value>"
Compare(left, comparison, right) ==
  CASE comparison = ">=" -> left >= right
    [] comparison = ">" -> left > right
    [] comparison = "==" -> left = right

\* the positions 1..k of the rows that satisfy the condition, in row order
RECURSIVE KeptPositions(_, _, _)
KeptPositions(frame, condition, k) ==
  IF k = 0 THEN <<>>
  ELSE LET before == KeptPositions(frame, condition, k - 1)
       IN  IF Compare(frame.rows[k][condition.column], condition.comparison, condition.value)
             THEN Append(before, k)
           ELSE before

\* a mutant: the rank of the kept rows is renumbered by their new positions
QueryRenumbering(frame, condition) ==
  IF condition.column \notin ColumnsOf(frame)
    THEN [raised |-> "UndefinedVariableError", value |-> <<>>]
  ELSE LET kept == KeptPositions(frame, condition, Len(frame.rows))
       IN  [raised |-> NoError,
            value |-> <<[columns |-> frame.columns,
                         index |-> [j \in 1..Len(kept) |-> frame.index[kept[j]]],
                         rows |-> [j \in 1..Len(kept) |->
                                    [c \in ColumnsOf(frame) |->
                                      IF c = "rank" THEN j ELSE frame.rows[kept[j]][c]]]]>>]

\* frame.query(condition): a new frame of the rows that satisfy the
\* condition, each under its index label, or UndefinedVariableError when the
\* condition names no column
Query(frame, condition) ==
  IF condition.column \notin ColumnsOf(frame)
    THEN [raised |-> "UndefinedVariableError", value |-> <<>>]
  ELSE LET kept == KeptPositions(frame, condition, Len(frame.rows))
       IN  [raised |-> NoError,
            value |-> <<[columns |-> frame.columns,
                         index |-> [j \in 1..Len(kept) |-> frame.index[kept[j]]],
                         rows |-> [j \in 1..Len(kept) |-> frame.rows[kept[j]]]]>>]

\* frame[key] = value with a scalar value: the column is overwritten, or
\* appended when the frame has no such column
SetItem(frame, key, value) ==
  [columns |-> IF key \in ColumnsOf(frame) THEN frame.columns ELSE Append(frame.columns, key),
   index |-> frame.index,
   rows |-> [k \in 1..Len(frame.rows) |->
              [c \in ColumnsOf(frame) \cup {key} |-> IF c = key THEN value ELSE frame.rows[k][c]]]]

-----------------------------------------------------------------------------
(* xrResult.select, xrResult.filter, xrResult.mutate *)

\* what a method returns when it returns self
Self == [reference |-> "self"]

\* a mutant: the selection goes into a new xrResult and self keeps its table
SelectIntoNewResult(self, columns) ==
  LET selected == GetColumns(self.result, columns)
  IN  IF selected.raised # NoError THEN [raised |-> selected.raised, self |-> self, value |-> <<>>]
      ELSE [raised |-> NoError,
            self |-> self,
            value |-> <<[self EXCEPT !.result = selected.value[1]]>>]

SelectOf(self, columns) ==
  LET selected == GetColumns(self.result, columns)
  IN  IF selected.raised # NoError THEN [raised |-> selected.raised, self |-> self, value |-> <<>>]
      ELSE [raised |-> NoError,
            self |-> [self EXCEPT !.result = selected.value[1]],
            value |-> <<Self>>]

FilterOf(self, condition) ==
  LET filtered == Query(self.result, condition)
  IN  IF filtered.raised # NoError THEN [raised |-> filtered.raised, self |-> self, value |-> <<>>]
      ELSE [raised |-> NoError,
            self |-> [self EXCEPT !.result = filtered.value[1]],
            value |-> <<Self>>]

\* for key, value in kwargs.items(): self.result[key] = value
RECURSIVE MutateLoop(_, _)
MutateLoop(frame, kwargs) ==
  IF kwargs = <<>> THEN frame
  ELSE MutateLoop(SetItem(frame, Head(kwargs).key, Head(kwargs).value), Tail(kwargs))

MutateOf(self, kwargs) ==
  [raised |-> NoError,
   self |-> [self EXCEPT !.result = MutateLoop(self.result, kwargs)],
   value |-> <<Self>>]

-----------------------------------------------------------------------------
(* The state machine: a caller holding the inputs applies the operations *)

IsValid(peptide) == InternalCheckingPeptide(peptide).raised = NoError

Init ==
  /\ \/ /\ query \in PeptidePool
        /\ subject \in SubjectPool
        /\ weight \in WeightPool
        /\ peptides = <<>>
     \/ /\ query \in QueryPool
        /\ subject = EVDPIGHLY
        /\ weight \in BatchWeightPool
        /\ peptides \in BackgroundLists
  /\ background = <<>>
  /\ result = <<>>
  /\ shared = <<>>
  /\ op = "none"
  /\ args = <<>>
  /\ raised = NoError
  /\ ret = <<>>

Inputs == <<query, subject, weight, peptides>>

\* the last call was a batch call
Composed == op \in {"cross_compose", "cross_pair_summary"}

\* _internal_checking_peptide(query)
CheckingPeptide ==
  LET r == InternalCheckingPeptide(query)
  IN  /\ op' = "_internal_checking_peptide"
      /\ raised' = r.raised
      /\ ret' = r.value
      /\ args' = <<>>
      /\ UNCHANGED <<Inputs, background, result, shared>>

\* _internal_related_distance on the components of two validated peptides,
\* as cross_compose and calculate_relatedness call it
RelatedDistance ==
  /\ IsValid(query)
  /\ IsValid(subject)
  /\ op' = "_internal_related_distance"
  /\ raised' = NoError
  /\ ret' = <<InternalRelatedDistance(ListOf(query), ListOf(subject), weight)>>
  /\ args' = <<>>
  /\ UNCHANGED <<Inputs, background, result, shared>>

\* calculate_relatedness(query, subject, weight)
CalculateRelatedness ==
  LET r == CalculateRelatednessOf(query, subject, weight)
  IN  /\ op' = "calculate_relatedness"
      /\ raised' = r.raised
      /\ ret' = r.value
      /\ args' = <<>>
      /\ UNCHANGED <<Inputs, background, result, shared>>

\* background = xrBackground(allele, peptides)
ConstructBackground ==
  \E allele \in Alleles :
    LET r == NewBackground(allele, peptides)
    IN  /\ op' = "xrBackground"
        /\ raised' = r.raised
        /\ ret' = r.value
        /\ background' = IF r.raised = NoError THEN r.value ELSE background
        /\ args' = <<>>
        /\ UNCHANGED <<Inputs, result, shared>>

\* result = cross_compose(query, background, weight)
CrossCompose ==
  /\ background # <<>>
  /\ \E now \in Timestamps, unknown_exact \in BOOLEAN :
       \E r \in {CrossComposeOf(query, background[1], weight, now, unknown_exact)} :
           /\ op' = "cross_compose"
           /\ raised' = r.raised
           /\ ret' = r.value
           /\ result' = IF r.raised = NoError THEN r.value ELSE result
           /\ shared' = IF r.raised = NoError THEN <<>> ELSE shared
           /\ args' = <<>>
           /\ UNCHANGED <<Inputs, background>>

\* result = cross_pair_summary(query, background)
CrossPairSummary ==
  /\ background # <<>>
  /\ \E now \in Timestamps, unknown_exact \in BOOLEAN :
       \E r \in {CrossPairSummaryOf(query, background[1], now, unknown_exact)} :
           /\ op' = "cross_pair_summary"
           /\ raised' = r.raised
           /\ ret' = r.value
           /\ result' = IF r.raised = NoError THEN r.value ELSE result
           /\ shared' = IF r.raised = NoError THEN <<>> ELSE shared
           /\ args' = <<>>
           /\ UNCHANGED <<Inputs, background>>

\* table = result.result; result = xrResult(query, table, allele, weight),
\* on the result a batch call has just returned: the caller keeps table
ConstructResult ==
  /\ Composed
  /\ raised = NoError
  /\ \E allele \in Alleles, now \in Timestamps :
       LET table == ret[1].result
       IN  /\ op' = "xrResult"
           /\ args' = <<>>
           /\ raised' = NoError
           /\ ret' = <<NewResult(query, table, allele, weight, now)>>
           /\ result' = ret'
           /\ shared' = <<table>>
           /\ UNCHANGED <<Inputs, background>>

\* result.select(columns): self.result is bound to a new frame, and the frame
\* it was bound to is shared no longer
Select ==
  /\ result # <<>>
  /\ \E columns \in SelectPool :
       LET r == SelectOf(result[1], columns)
       IN  /\ op' = "select"
           /\ args' = <<columns>>
           /\ raised' = r.raised
           /\ ret' = r.value
           /\ result' = <<r.self>>
           /\ shared' = IF r.raised = NoError THEN <<>> ELSE shared
           /\ UNCHANGED <<Inputs, background>>

\* result.filter(condition)
Filter ==
  /\ result # <<>>
  /\ \E condition \in FilterPool :
       LET r == FilterOf(result[1], condition)
       IN  /\ op' = "filter"
           /\ args' = <<condition>>
           /\ raised' = r.raised
           /\ ret' = r.value
           /\ result' = <<r.self>>
           /\ shared' = IF r.raised = NoError THEN <<>> ELSE shared
           /\ UNCHANGED <<Inputs, background>>

\* result.mutate(**kwargs): the assignments act on the frame self.result is
\* bound to, the caller's frame too when the two share it
Mutate ==
  /\ result # <<>>
  /\ \E kwargs \in MutatePool :
       LET r == MutateOf(result[1], kwargs)
       IN  /\ op' = "mutate"
           /\ args' = <<kwargs>>
           /\ raised' = r.raised
           /\ ret' = r.value
           /\ result' = <<r.self>>
           /\ shared' = IF shared # <<>> THEN <<r.self.result>> ELSE shared
           /\ UNCHANGED <<Inputs, background>>

Next ==
  \/ CheckingPeptide
  \/ RelatedDistance
  \/ CalculateRelatedness
  \/ ConstructBackground
  \/ CrossCompose
  \/ CrossPairSummary
  \/ ConstructResult
  \/ Select
  \/ Filter
  \/ Mutate

Spec == Init /\ [][Next]_vars

-----------------------------------------------------------------------------
(* Vocabulary of the properties *)

Alphabet ==
  {"A", "C", "D", "E", "F", "G", "H", "I", "K", "L",
   "M", "N", "P", "Q", "R", "S", "T", "V", "W", "Y"}

\* a valid 9-residue peptide
WellFormed(peptide) ==
  /\ Len(peptide) = 9
  /\ \A i \in 1..Len(peptide) : peptide[i] \in Alphabet

NonNegativeWeights(w) == w # <<>> /\ Len(w) = 9 /\ \A i \in 1..9 : w[i] >= 0

ReturnedRows == ret[1].result.rows

\* a fraction a/b equals the fraction [num, den]
FractionIs(f, a, b) == f.num * b = a * f.den

-----------------------------------------------------------------------------
(* Properties *)

\* C1: for valid peptides P, Q and 9 non-negative position weights (the
\* all-ones default included) the relatedness score, as returned by
\* _internal_related_distance and as stored by cross_compose in the
\* relatedness_score column, lies in [0, 1].
C1_ScoreInUnitInterval ==
  /\ (op = "_internal_related_distance" /\ NonNegativeWeights(weight))
       => (ret[1].num >= 0 /\ ScoreAtMostOne(ret[1]))
  /\ (Composed /\ raised = NoError)
       => \A k \in 1..Len(ReturnedRows) :
            /\ ReturnedRows[k].relatedness_score.num >= 0
            /\ ScoreAtMostOne(ReturnedRows[k].relatedness_score)

\* C2: calculate_relatedness(query, candidate) with the default weights, on
\* valid peptides, returns a score s with 0.0 <= s <= 1.0.
C2_CalculateRelatednessInUnitInterval ==
  (op = "calculate_relatedness" /\ weight = <<>> /\ WellFormed(query) /\ WellFormed(subject))
    => /\ raised = NoError
       /\ ret # <<>>
       /\ ret[1].num >= 0
       /\ ScoreAtMostOne(ret[1])

\* C3: when the weight of position i is 0, the relatedness metric does not
\* depend on the residue at position i: replacing the subject's residue at i
\* by any other residue leaves the score unchanged.
C3_ZeroWeightIgnoresPosition ==
  (op = "_internal_related_distance" /\ NonNegativeWeights(weight))
    => \A i \in 1..9 :
         weight[i] = 0
           => \A c \in Alphabet :
                ScoreEqual(InternalRelatedDistance(ListOf(query), ListOf([subject EXCEPT ![i] = c]), weight),
                           ret[1])

C5_CheckingPeptide ==
  op = "_internal_checking_peptide"
    => IF Len(query) # 9 \/ (\E i \in 1..Len(query) : query[i] \notin Alphabet)
         THEN raised = "ValueError" /\ ret = <<>>
         ELSE /\ raised = NoError
              /\ Len(ret[1]) = 9
              /\ \A i \in 1..9 : ret[1][i] = query[i]

C5_Witness ==
  /\ op = "_internal_checking_peptide"
  /\ Len(query) = 9
  /\ \E i \in 1..9 : query[i] \notin Alphabet
  /\ raised = "ValueError"

\* C6: cross_compose and cross_pair_summary, on a valid query and a
\* background of N >= 2 valid peptides, return a result whose query is the
\* given query and whose table has exactly N rows; row k has the k-th
\* background peptide as subject, rank k and percentile_rank 100*(k-1)/(N-1).
C6_RowsInBackgroundOrder ==
  (/\ Composed
   /\ WellFormed(query)
   /\ Len(peptides) >= 2
   /\ \A k \in 1..Len(peptides) : WellFormed(peptides[k]))
    => /\ raised = NoError
       /\ ret # <<>>
       /\ ret[1].query = query
       /\ Len(ReturnedRows) = Len(peptides)
       /\ \A k \in 1..Len(peptides) :
            /\ ReturnedRows[k].subject = peptides[k]
            /\ ReturnedRows[k].rank = k
            /\ FractionIs(ReturnedRows[k].percentile_rank, 100 * (k - 1), Len(peptides) - 1)

C6_Witness ==
  /\ op = "cross_pair_summary"
  /\ raised = NoError
  /\ Len(ReturnedRows) = 3
  /\ ReturnedRows[1].subject = ReturnedRows[3].subject
  /\ ReturnedRows[2].subject # ReturnedRows[1].subject
  /\ FractionIs(ReturnedRows[2].percentile_rank, 50, 1)

\* C7: batch scoring fails atomically: when the query or a background member
\* at any index fails validation, cross_compose raises and returns neither a
\* result object nor a table of the rows scored before the invalid member.
C7_BatchFailsAtomically ==
  (/\ Composed
   /\ \/ ~ WellFormed(query)
      \/ \E k \in 1..Len(background[1].peptides) : ~ WellFormed(background[1].peptides[k]))
    => /\ raised = "ValueError"
       /\ ret = <<>>
       /\ result = <<>>

C7_Witness ==
  /\ op = "cross_compose"
  /\ raised = "ValueError"
  /\ ret = <<>>
  /\ WellFormed(query)
  /\ Len(background[1].peptides) = 3
  /\ WellFormed(background[1].peptides[1])
  /\ WellFormed(background[1].peptides[2])
  /\ ~ WellFormed(background[1].peptides[3])

\* C8: for every valid peptide P and every 9 non-negative weights, the
\* relatedness of P with itself is exactly 0.
C8_SelfRelatednessIsZero ==
  (op = "_internal_related_distance" /\ query = subject) => ScoreIsZero(ret[1])

C8_Witness ==
  /\ op = "_internal_related_distance"
  /\ query = subject
  /\ query = EVDPIGHLY
  /\ NonNegativeWeights(weight)
  /\ \A i \in 1..9 : weight[i] = 4
  /\ ScoreIsZero(ret[1])

\* C9: the relatedness metric is symmetric in its two peptides:
\* relatedness(P, Q, w) = relatedness(Q, P, w).
C9_RelatednessSymmetric ==
  op = "_internal_related_distance"
    => ScoreEqual(ret[1], InternalRelatedDistance(ListOf(subject), ListOf(query), weight))

C9_Witness ==
  /\ op = "_internal_related_distance"
  /\ query = EVDPIGHLY
  /\ subject = ESDPIVAQY
  /\ weight = Ones
  /\ ~ ScoreIsZero(ret[1])

\* C10: in every row of cross_compose, num_positive is the number of
\* positions 0..8 where the query character equals the subject character,
\* num_negative the number of positions where they differ, and the two add
\* up to 9.
C10_MatchCounts ==
  (Composed /\ raised = NoError)
    => \A k \in 1..Len(ReturnedRows) :
         LET row == ReturnedRows[k]
         IN  /\ row.num_positive = Cardinality({i \in 1..9 : row.query[i] = row.subject[i]})
             /\ row.num_negative = Cardinality({i \in 1..9 : row.query[i] # row.subject[i]})
             /\ row.num_positive + row.num_negative = 9

C10_Witness ==
  /\ op = "cross_compose"
  /\ raised = NoError
  /\ \E k \in 1..Len(ReturnedRows) :
       /\ ReturnedRows[k].subject = EVDPIGHFY
       /\ ReturnedRows[k].num_positive = 8
       /\ ReturnedRows[k].num_negative = 1
  /\ \E k \in 1..Len(ReturnedRows) : ReturnedRows[k].num_positive = 5

\* C11: an undefined z-score is never silently turned into a number: when
\* the batch has fewer than 2 measurements, or all its N >= 2 relatedness
\* scores are equal, cross_compose fails or returns rows whose zscore and
\* pvalue are not-a-number.
C11_UndefinedZScoreSurfaced ==
  (/\ Composed
   /\ \/ Len(background[1].peptides) < 2
      \/ /\ raised = NoError
         /\ \A j, k \in 1..Len(ReturnedRows) :
              ScoreEqual(ReturnedRows[j].relatedness_score, ReturnedRows[k].relatedness_score))
    => \/ raised # NoError
       \/ \A k \in 1..Len(ReturnedRows) :
            ReturnedRows[k].zscore = NaN /\ ReturnedRows[k].pvalue = NaN

\* C12: scoring query EVDPIGHLY against [ESDPIVAQY, EVDPIGHFY, EVDPIGLLY]
\* with equal weights yields a 3-row table in which the row of EVDPIGHFY has
\* num_positive 8, more than the row of ESDPIVAQY, and a strictly lower
\* relatedness_score than the row of ESDPIVAQY.
C12_EndToEndScenario ==
  (/\ Composed
   /\ query = EVDPIGHLY
   /\ background[1].peptides = <<ESDPIVAQY, EVDPIGHFY, EVDPIGLLY>>
   /\ (op = "cross_pair_summary" \/ weight = <<>> \/ weight = Ones))
    => /\ raised = NoError
       /\ ret # <<>>
       /\ Len(ReturnedRows) = 3
       /\ ReturnedRows[1].subject = ESDPIVAQY
       /\ ReturnedRows[2].subject = EVDPIGHFY
       /\ ReturnedRows[2].num_positive = 8
       /\ ReturnedRows[2].num_positive > ReturnedRows[1].num_positive
       /\ ScoreLess(ReturnedRows[2].relatedness_score, ReturnedRows[1].relatedness_score)

C12_Witness ==
  /\ op = "cross_compose"
  /\ raised = NoError
  /\ weight = <<>>
  /\ ret[1].query = EVDPIGHLY
  /\ Len(ReturnedRows) = 3
  /\ ReturnedRows[1].subject = ESDPIVAQY
  /\ ReturnedRows[2].subject = EVDPIGHFY
  /\ ReturnedRows[3].subject = EVDPIGLLY
  /\ ReturnedRows[2].num_positive = 8

-----------------------------------------------------------------------------
(* Vocabulary of the properties of the Result container *)

Labels(columns) == {columns[i] : i \in 1..Len(columns)}

DeriveCall == {"select", "filter", "mutate"}

HeldTable == result[1].result

\* the table new holds the columns `columns` of the table old, row by row
IsColumnSubset(old, new, columns) ==
  /\ new.columns = columns
  /\ Labels(columns) \subseteq Labels(old.columns)
  /\ new.index = old.index
  /\ Len(new.rows) = Len(old.rows)
  /\ \A k \in 1..Len(new.rows) :
       /\ DOMAIN new.rows[k] = Labels(columns)
       /\ \A c \in Labels(columns) : new.rows[k][c] = old.rows[k][c]

\* the table new holds, in their order, the rows of the table old whose
\* value in condition.column stands in the condition's comparison
IsRowSubset(old, new, condition) ==
  /\ new.columns = old.columns
  /\ Len(new.index) = Len(new.rows)
  /\ \A i, j \in 1..Len(new.rows) : i < j => new.index[i] < new.index[j]
  /\ \A j \in 1..Len(new.rows) :
       \E k \in 1..Len(old.rows) : old.index[k] = new.index[j] /\ old.rows[k] = new.rows[j]
  /\ \A k \in 1..Len(old.rows) :
       (\E j \in 1..Len(new.rows) : new.index[j] = old.index[k])
         <=> CASE condition.comparison = ">=" -> old.rows[k][condition.column] >= condition.value
               [] condition.comparison = ">" -> old.rows[k][condition.column] > condition.value
               [] condition.comparison = "==" -> old.rows[k][condition.column] = condition.value

\* the value the keyword arguments give to key: that of its last occurrence
LastValue(kwargs, key) ==
  LET at == {i \in 1..Len(kwargs) : kwargs[i].key = key}
  IN  kwargs[CHOOSE i \in at : \A j \in at : j <= i].value

\* the table new is the table old with the columns named by kwargs added or
\* overwritten and every other column as it was
IsMutation(old, new, kwargs) ==
  LET keys == {kwargs[i].key : i \in 1..Len(kwargs)}
  IN  /\ Labels(new.columns) = Labels(old.columns) \cup keys
      /\ SubSeq(new.columns, 1, Len(old.columns)) = old.columns
      /\ new.index = old.index
      /\ Len(new.rows) = Len(old.rows)
      /\ \A k \in 1..Len(new.rows), c \in Labels(new.columns) :
           new.rows[k][c] = IF c \in keys THEN LastValue(kwargs, c) ELSE old.rows[k][c]

-----------------------------------------------------------------------------

C14_RankDenseAfterDerive ==
  (op \in DeriveCall /\ raised = NoError)
    => /\ "rank" \in Labels(HeldTable.columns)
       /\ \A k \in 1..Len(HeldTable.rows) : HeldTable.rows[k].rank = k

\* C14 (amended): rank is 1..N in row order in the table cross_compose
\* returns, and select, filter and mutate never recompute it: a row that
\* filter keeps, and a row of a selection that includes rank, has the rank it
\* had before the call, and mutate leaves rank as it was unless rank is one
\* of its keyword arguments, which then overwrites it.
C14_RankNeverRecomputed ==
  [][/\ (op' \in {"cross_compose", "cross_pair_summary"} /\ raised' = NoError)
          => \A k \in 1..Len(ret'[1].result.rows) : ret'[1].result.rows[k].rank = k
     /\ (op' \in {"select", "filter"} /\ raised' = NoError /\ "rank" \in Labels(result'[1].result.columns))
          => \A j \in 1..Len(result'[1].result.rows) :
               \E k \in 1..Len(result[1].result.rows) :
                 /\ result[1].result.index[k] = result'[1].result.index[j]
                 /\ result[1].result.rows[k].rank = result'[1].result.rows[j].rank
     /\ (op' = "mutate" /\ raised' = NoError)
          => \A k \in 1..Len(result'[1].result.rows) :
               IF \E i \in 1..Len(args'[1]) : args'[1][i].key = "rank"
                 THEN result'[1].result.rows[k].rank = LastValue(args'[1], "rank")
               ELSE "rank" \in Labels(result[1].result.columns)
                      => result'[1].result.rows[k].rank = result[1].result.rows[k].rank]_vars

\* filter has dropped the first of three rows: the two rows held have the
\* ranks 2 and 3
C14_Witness ==
  /\ op = "filter"
  /\ raised = NoError
  /\ result # <<>>
  /\ Len(background[1].peptides) = 3
  /\ "rank" \in Labels(HeldTable.columns)
  /\ Len(HeldTable.rows) = 2
  /\ HeldTable.rows[1].rank = 2
  /\ HeldTable.rows[2].rank = 3

\* C15: when the caller has built the Result from a table it still
\* references, no select, filter or mutate call on the Result changes the
\* columns or the row values of the caller's table.
C15_SharedTableUnchanged ==
  [][(shared # <<>> /\ shared' # <<>> /\ op' \in DeriveCall)
       => /\ shared'[1].columns = shared[1].columns
          /\ shared'[1].rows = shared[1].rows]_vars

====
